---- MODULE Spec2Model ----
(***************************************************************************)
(* A model of python/main.py: the classes Dog, Animal and Cat, and the     *)
(* module-level statements that instantiate and exercise them.             *)
(*                                                                         *)
(* The state is the interpreter's: the line of the next module-level       *)
(* statement, the classes bound so far, the module globals, the heap of    *)
(* instances (each a class and an instance dictionary), and the lines      *)
(* written to standard output.  The argument lists of the two constructor  *)
(* calls are inputs of a run: the lists written in the source are          *)
(* DogLiteral and CatLiteral.  Once a run of the source as written has     *)
(* ended normally, a caller holding the module may go on using the classes.*)
(***************************************************************************)
EXTENDS Integers, Sequences, FiniteSets, TLC

VARIABLES pc, status, defined, globals, heap, made, out, res, dogArgs, catArgs

vars == <<pc, status, defined, globals, heap, made, out, res, dogArgs, catArgs>>

\* Bounds of the model.
MaxArgs == 3
MaxObjects == 4
MaxOut == 4

-----------------------------------------------------------------------------
\* Values

Str(s) == [type |-> "str", val |-> s]
PyNone == [type |-> "NoneType", val |-> ""]

\* Variant of PyStr: repr(v) in place of str(v).
PyStr_Repr(v) == IF v.type = "NoneType" THEN "None" ELSE "'" \o v.val \o "'"

\* str(v), as print applies it to its argument.
PyStr(v) == IF v.type = "NoneType" THEN "None" ELSE v.val

\* print(v): one line on standard output.
PyPrint(o, v) == Append(o, PyStr(v))

\* The argument lists written in the source.
DogLiteral == <<Str("Fido"), Str("Labrador")>>
CatLiteral == <<Str("Whiskers")>>

\* The values the argument lists of a run, and of a caller, are drawn from.
DogValues == {Str("Fido"), Str("Labrador"), PyNone}
CatValues == {Str("Whiskers"), PyNone}
CallerValues == {Str("X"), PyNone}

Tuples(S, n) == UNION {[1..k -> S] : k \in 0..n}

-----------------------------------------------------------------------------
\* The class statements

ClassNames == {"Dog", "Animal", "Cat"}

Bases(c) == IF c = "Cat" THEN <<"Animal">> ELSE <<>>

RECURSIVE MRO(_)
MRO(c) == <<c>> \o (IF Bases(c) = <<>> THEN <<"object">> ELSE MRO(Bases(c)[1]))

\* The parameters, after self, of the methods each class body defines.
Methods(c) ==
    CASE c = "Dog"    -> {"__init__", "bark"}
      [] c = "Animal" -> {"__init__", "speak"}
      [] c = "Cat"    -> {"__init__", "speak"}
      [] OTHER        -> {"__init__"}

\* Variant of Params: Cat.__init__ declared with Dog's two parameters.
Params_CatBreed(c, m) ==
    CASE c \in {"Dog", "Cat"} /\ m = "__init__" -> <<"name", "breed">>
      [] c = "Animal" /\ m = "__init__"         -> <<"name">>
      [] OTHER                                  -> <<>>

Params(c, m) ==
    CASE c = "Dog" /\ m = "__init__"    -> <<"name", "breed">>
      [] c = "Animal" /\ m = "__init__" -> <<"name">>
      [] c = "Cat" /\ m = "__init__"    -> <<"name">>
      [] OTHER                          -> <<>>

\* The first class of a method resolution order that defines m ("" if none).
RECURSIVE FirstDefining(_, _)
FirstDefining(order, m) ==
    IF order = <<>> THEN ""
    ELSE IF m \in Methods(Head(order)) THEN Head(order)
    ELSE FirstDefining(Tail(order), m)

\* Variant of Resolve: the lookup starts at the base class when there is one
\* (dispatch on the declared type, not on the instance's).
Resolve_Static(c, m) ==
    FirstDefining(IF Bases(c) = <<>> THEN MRO(c) ELSE MRO(Bases(c)[1]), m)

\* type(obj).m: lookup along the method resolution order of class c.
Resolve(c, m) == FirstDefining(MRO(c), m)

RECURSIVE After(_, _)
After(order, c) ==
    IF order = <<>> THEN <<>>
    ELSE IF Head(order) = c THEN Tail(order)
    ELSE After(Tail(order), c)

\* super().m written in the body of class c, for an instance of class t.
Super(c, t, m) == FirstDefining(After(MRO(t), c), m)

IsInstance(h, ref, c) == \E i \in DOMAIN MRO(h[ref].cls) : MRO(h[ref].cls)[i] = c

\* Private name mangling of an identifier written in the body of class c.
IsPrivate(id) ==
    /\ Len(id) > 2
    /\ SubSeq(id, 1, 2) = "__"
    /\ SubSeq(id, Len(id) - 1, Len(id)) # "__"

\* Variant of Mangle: no mangling.
Mangle_None(c, id) == id

Mangle(c, id) == IF IsPrivate(id) THEN "_" \o c \o id ELSE id

-----------------------------------------------------------------------------
\* Instances and attribute access

EmptyDict == [k \in {} |-> PyNone]

Put(d, a, v) == [k \in (DOMAIN d) \cup {a} |-> IF k = a THEN v ELSE d[k]]

SetAttr(h, self, a, v) == [h EXCEPT ![self].dict = Put(@, a, v)]

\* How a call ends: normally (no method body has a return statement, so the
\* value is None), or with an exception (an AttributeError names the
\* attribute that was not found).
Ok(h, o) == [exc |-> "", attr |-> "", heap |-> h, out |-> o, ret |-> PyNone, ref |-> 0]
Raise(e, a, h, o) == [exc |-> e, attr |-> a, heap |-> h, out |-> o, ret |-> PyNone, ref |-> 0]

\* What evaluating an expression gives.
ResObject(r) == [kind |-> "object", ref |-> r, val |-> PyNone, exc |-> "", attr |-> ""]
ResValue(v) == [kind |-> "value", ref |-> 0, val |-> v, exc |-> "", attr |-> ""]
ResMethod(r) == [kind |-> "method", ref |-> r, val |-> PyNone, exc |-> "", attr |-> ""]
ResError(e, a) == [kind |-> "error", ref |-> 0, val |-> PyNone, exc |-> e, attr |-> a]

\* obj.id, written at module scope or in the body of class `scope`.
LoadAttr(h, ref, id, scope) ==
    LET a == IF scope = "module" THEN id ELSE Mangle(scope, id)
        obj == h[ref]
    IN  IF a \in DOMAIN obj.dict THEN ResValue(obj.dict[a])
        ELSE IF Resolve(obj.cls, a) # "" THEN ResMethod(ref)
        ELSE ResError("AttributeError", a)

-----------------------------------------------------------------------------
\* The method bodies

RECURSIVE Invoke(_, _, _, _, _, _)

\* Variant of Dog.__init__: the two assignments take each other's value.
Dog__init__Swapped(h, o, self, args) ==
    Ok(SetAttr(SetAttr(h, self, Mangle("Dog", "name"), args[2]),
               self, Mangle("Dog", "breed"), args[1]), o)

Dog__init__(h, o, self, args) ==
    Ok(SetAttr(SetAttr(h, self, Mangle("Dog", "name"), args[1]),
               self, Mangle("Dog", "breed"), args[2]), o)

\* Variant of Dog.bark: prints the instance's name.
Dog_bark_Name(h, o, self, args) == Ok(h, PyPrint(o, h[self].dict["name"]))

\* Variant of Dog.bark: also rebinds an attribute of the instance.
Dog_bark_Rebinds(h, o, self, args) ==
    Ok(SetAttr(h, self, "name", Str("Woof!")), PyPrint(o, Str("Woof!")))

Dog_bark(h, o, self, args) == Ok(h, PyPrint(o, Str("Woof!")))

Animal__init__(h, o, self, args) ==
    Ok(SetAttr(h, self, Mangle("Animal", "__name"), args[1]), o)

Animal_speak(h, o, self, args) == Ok(h, PyPrint(o, Str("Generic animal sound")))

\* Variant of Cat.__init__: assigns self.__name in Cat's own body.
Cat__init__Own(h, o, self, args) ==
    Ok(SetAttr(h, self, Mangle("Cat", "__name"), args[1]), o)

\* Variant of Cat.__init__: super().__init__() without the argument.
Cat__init__NoArg(h, o, self, args) ==
    Invoke(h, o, Super("Cat", h[self].cls, "__init__"), "__init__", self, <<>>)

Cat__init__(h, o, self, args) ==
    Invoke(h, o, Super("Cat", h[self].cls, "__init__"), "__init__", self, <<args[1]>>)

\* Variant of Cat.speak: the override is missing.
Cat_speak_Inherited(h, o, self, args) == Animal_speak(h, o, self, args)

Cat_speak(h, o, self, args) == Ok(h, PyPrint(o, Str("Meow!")))

\* A call of method m as defined in class c, with self bound to an instance:
\* the arguments are bound to the parameters, then the body runs.
Invoke(h, o, c, m, self, args) ==
    IF Len(args) # Len(Params(c, m)) THEN Raise("TypeError", "", h, o)
    ELSE CASE c = "Dog" /\ m = "__init__"    -> Dog__init__(h, o, self, args)
           [] c = "Dog" /\ m = "bark"        -> Dog_bark(h, o, self, args)
           [] c = "Animal" /\ m = "__init__" -> Animal__init__(h, o, self, args)
           [] c = "Animal" /\ m = "speak"    -> Animal_speak(h, o, self, args)
           [] c = "Cat" /\ m = "__init__"    -> Cat__init__(h, o, self, args)
           [] c = "Cat" /\ m = "speak"       -> Cat_speak(h, o, self, args)
           [] OTHER                          -> Ok(h, o)

\* obj.m(*args)
CallMethod(h, o, ref, m, args) ==
    LET c == Resolve(h[ref].cls, m)
    IN  IF c = "" THEN Raise("AttributeError", m, h, o)
        ELSE Invoke(h, o, c, m, ref, args)

\* c(*args): the name c is looked up, an instance is allocated and its
\* __init__ runs; if that raises, the instance is unreachable and is freed.
New(h, o, names, c, args) ==
    IF c \notin names THEN Raise("NameError", "", h, o)
    ELSE LET self == Len(h) + 1
             r == Invoke(Append(h, [cls |-> c, dict |-> EmptyDict]), o,
                         Resolve(c, "__init__"), "__init__", self, args)
         IN  IF r.exc = "" THEN [r EXCEPT !.ref = self]
             ELSE Raise(r.exc, r.attr, h, r.out)

-----------------------------------------------------------------------------
\* A run of the script

Init ==
    /\ pc = 4
    /\ status = "running"
    /\ defined = {}
    /\ globals = [my_dog |-> 0, my_cat |-> 0]
    /\ heap = <<>>
    /\ made = <<>>
    /\ out = <<>>
    /\ res = ResValue(PyNone)
    /\ dogArgs \in Tuples(DogValues, MaxArgs)
    /\ catArgs \in Tuples(CatValues, MaxArgs)

At(line) == status = "running" /\ pc = line

\* The statement at pc ended: normally (control moves to line `next`, or the
\* run ends after the last statement), or with an uncaught exception.
Completes(r, next, last) ==
    /\ heap' = r.heap
    /\ out' = r.out
    /\ IF r.exc = ""
       THEN /\ pc' = next
            /\ status' = IF last THEN "done" ELSE "running"
       ELSE /\ pc' = pc
            /\ status' = "crashed"

Record(r, c, args) == IF r.exc = "" THEN Append(made, [cls |-> c, args |-> args]) ELSE made

Outcome(r, normal) == IF r.exc = "" THEN normal ELSE ResError(r.exc, r.attr)

\* class Dog: ...
ClassDog ==
    /\ At(4)
    /\ defined' = defined \cup {"Dog"}
    /\ pc' = 12
    /\ UNCHANGED <<status, globals, heap, made, out, res, dogArgs, catArgs>>

\* my_dog = Dog("Fido", "Labrador")
MakeDog ==
    /\ At(12)
    /\ LET r == New(heap, out, defined, "Dog", dogArgs)
       IN  /\ Completes(r, 13, FALSE)
           /\ made' = Record(r, "Dog", dogArgs)
           /\ res' = Outcome(r, ResObject(r.ref))
           /\ globals' = IF r.exc = "" THEN [globals EXCEPT !.my_dog = r.ref] ELSE globals
    /\ UNCHANGED <<defined, dogArgs, catArgs>>

\* print(my_dog.name)
PrintName ==
    /\ At(13)
    /\ LET a == LoadAttr(heap, globals.my_dog, "name", "module")
           r == IF a.kind = "value" THEN Ok(heap, PyPrint(out, a.val))
                ELSE Raise(a.exc, a.attr, heap, out)
       IN  /\ Completes(r, 14, FALSE)
           /\ res' = Outcome(r, ResValue(r.ret))
    /\ UNCHANGED <<defined, globals, made, dogArgs, catArgs>>

\* my_dog.bark()
CallBark ==
    /\ At(14)
    /\ LET r == CallMethod(heap, out, globals.my_dog, "bark", <<>>)
       IN  /\ Completes(r, 17, FALSE)
           /\ res' = Outcome(r, ResValue(r.ret))
    /\ UNCHANGED <<defined, globals, made, dogArgs, catArgs>>

\* class Animal: ...
ClassAnimal ==
    /\ At(17)
    /\ defined' = defined \cup {"Animal"}
    /\ pc' = 24
    /\ UNCHANGED <<status, globals, heap, made, out, res, dogArgs, catArgs>>

\* class Cat(Animal): ...
ClassCat ==
    /\ At(24)
    /\ LET r == IF "Animal" \in defined THEN Ok(heap, out) ELSE Raise("NameError", "", heap, out)
       IN  /\ Completes(r, 31, FALSE)
           /\ res' = Outcome(r, res)
           /\ defined' = IF r.exc = "" THEN defined \cup {"Cat"} ELSE defined
    /\ UNCHANGED <<globals, made, dogArgs, catArgs>>

\* my_cat = Cat("Whiskers")
MakeCat ==
    /\ At(31)
    /\ LET r == New(heap, out, defined, "Cat", catArgs)
       IN  /\ Completes(r, 32, FALSE)
           /\ made' = Record(r, "Cat", catArgs)
           /\ res' = Outcome(r, ResObject(r.ref))
           /\ globals' = IF r.exc = "" THEN [globals EXCEPT !.my_cat = r.ref] ELSE globals
    /\ UNCHANGED <<defined, dogArgs, catArgs>>

\* my_cat.speak()
CallSpeak ==
    /\ At(32)
    /\ LET r == CallMethod(heap, out, globals.my_cat, "speak", <<>>)
       IN  /\ Completes(r, 32, TRUE)
           /\ res' = Outcome(r, ResValue(r.ret))
    /\ UNCHANGED <<defined, globals, made, dogArgs, catArgs>>

Script ==
    \/ ClassDog
    \/ MakeDog
    \/ PrintName
    \/ CallBark
    \/ ClassAnimal
    \/ ClassCat
    \/ MakeCat
    \/ CallSpeak

-----------------------------------------------------------------------------
\* A caller of the classes, after a normal run of the source as written

Loaded ==
    /\ status \in {"done", "loaded"}
    /\ dogArgs = DogLiteral
    /\ catArgs = CatLiteral

\* The attribute reads of a caller: the private name and its mangled form,
\* written at module scope or in the body of Animal or of Cat.
Scopes == {"module", "Animal", "Cat"}
Reads == {"__name", "_Animal__name"} \X Scopes

\* c(*args), any exception caught by the caller
CallerNew(c, args) ==
    /\ Loaded
    /\ Len(heap) < MaxObjects
    /\ LET r == New(heap, out, defined, c, args)
       IN  /\ heap' = r.heap
           /\ out' = r.out
           /\ made' = Record(r, c, args)
           /\ res' = Outcome(r, ResObject(r.ref))
    /\ status' = "loaded"
    /\ UNCHANGED <<pc, defined, globals, dogArgs, catArgs>>

\* obj.m(), any exception caught by the caller
CallerCall(ref, m) ==
    /\ Loaded
    /\ Len(out) < MaxOut
    /\ LET r == CallMethod(heap, out, ref, m, <<>>)
       IN  /\ heap' = r.heap
           /\ out' = r.out
           /\ res' = Outcome(r, ResValue(r.ret))
    /\ status' = "loaded"
    /\ UNCHANGED <<pc, defined, globals, made, dogArgs, catArgs>>

\* obj.id, any exception caught by the caller
CallerGet(ref, id, scope) ==
    /\ Loaded
    /\ res' = LoadAttr(heap, ref, id, scope)
    /\ status' = "loaded"
    /\ UNCHANGED <<pc, defined, globals, heap, made, out, dogArgs, catArgs>>

CallerArgs == Tuples(CallerValues, MaxArgs)

Caller ==
    \/ \E c \in ClassNames, args \in CallerArgs : CallerNew(c, args)
    \/ \E ref \in DOMAIN heap, m \in {"bark", "speak"} : CallerCall(ref, m)
    \/ \E ref \in DOMAIN heap, rd \in Reads : CallerGet(ref, rd[1], rd[2])

Next == Script \/ Caller

Spec == Init /\ [][Next]_vars

\* The interpreter runs the script's statements one after another.
FairSpec == Spec /\ WF_vars(Script)

-----------------------------------------------------------------------------
\* Properties

LiteralRun == dogArgs = DogLiteral /\ catArgs = CatLiteral

\* The statements of the script are running, or have just ended.
InScript == status \in {"running", "done", "crashed"}

\* Instances by the constructor call that made them.
MadeBy(c) == {r \in DOMAIN heap : made[r].cls = c}

\* C1: for every pair (name, breed), the object Dog(name, breed) yields is a
\* Dog whose attribute name reads as the given name and whose attribute breed
\* reads as the given breed, and it holds nothing else; the object the
\* source's Dog("Fido", "Labrador") yields reads "Fido" and "Labrador".
C1_DogStoresNameAndBreed ==
    /\ \A r \in MadeBy("Dog") :
        /\ Len(made[r].args) = 2
        /\ heap[r].cls = "Dog"
        /\ DOMAIN heap[r].dict = {"name", "breed"}
        /\ LoadAttr(heap, r, "name", "module") = ResValue(made[r].args[1])
        /\ LoadAttr(heap, r, "breed", "module") = ResValue(made[r].args[2])
    /\ (LiteralRun /\ globals.my_dog # 0) =>
        /\ LoadAttr(heap, globals.my_dog, "name", "module") = ResValue(Str("Fido"))
        /\ LoadAttr(heap, globals.my_dog, "breed", "module") = ResValue(Str("Labrador"))

C1_Witness ==
    /\ LiteralRun
    /\ globals.my_dog # 0
    /\ \E r \in MadeBy("Dog") : made[r].args = <<PyNone, Str("X")>>

\* C2: a call of bark on any Dog, whatever its name and breed, returns None,
\* appends the one line "Woof!" to the output and changes no object; so the
\* script's my_dog.bark() and every call a caller makes write "Woof!".
C2_BarkWritesWoof ==
    /\ \A r \in DOMAIN heap : heap[r].cls = "Dog" =>
        LET c == CallMethod(heap, out, r, "bark", <<>>)
        IN  /\ c.exc = ""
            /\ c.ret = PyNone
            /\ c.out = Append(out, "Woof!")
            /\ c.heap = heap
    /\ (status = "running" /\ pc = 17) =>
            (Len(out) = 2 /\ out[2] = "Woof!" /\ res = ResValue(PyNone))

C2_Witness ==
    /\ status = "loaded"
    /\ Len(out) = 4
    /\ out[4] = "Woof!"
    /\ res = ResValue(PyNone)
    /\ \E r \in MadeBy("Dog") : heap[r].dict["name"] # Str("Fido")

\* C3: every object made by Cat(name) is an instance of Animal and has the
\* method speak, and a call of speak on it writes the line "Meow!" and not
\* "Generic animal sound"; so does the script's my_cat.speak().
C3_CatIsAnimalAndMeows ==
    /\ \A r \in MadeBy("Cat") :
        /\ IsInstance(heap, r, "Animal")
        /\ LoadAttr(heap, r, "speak", "module") = ResMethod(r)
        /\ LET c == CallMethod(heap, out, r, "speak", <<>>)
           IN  /\ c.exc = ""
               /\ Len(c.out) = Len(out) + 1
               /\ c.out[Len(c.out)] = "Meow!"
               /\ c.out[Len(c.out)] # "Generic animal sound"
    /\ status = "done" => (Len(out) = 3 /\ out[3] = "Meow!")

C3_Witness ==
    /\ status = "loaded"
    /\ Len(out) = 4
    /\ out[4] = "Meow!"
    /\ \E r \in MadeBy("Cat") : made[r].args = <<Str("X")>>

\* The line each variant of Animal reports.
Sound(c) == IF c = "Cat" THEN "Meow!" ELSE "Generic animal sound"

\* C4: a call of speak on any instance of Animal, whichever its concrete
\* class and whatever its name, does not raise, and the line it writes is
\* the one of the concrete class: "Generic animal sound" for an Animal,
\* "Meow!" for a Cat.
C4_SpeakDispatchesOnVariant ==
    \A r \in DOMAIN heap : IsInstance(heap, r, "Animal") =>
        /\ heap[r].cls \in {"Animal", "Cat"}
        /\ CallMethod(heap, out, r, "speak", <<>>) = Ok(heap, Append(out, Sound(heap[r].cls)))

C4_Witness ==
    /\ status = "loaded"
    /\ Len(out) = 4
    /\ out[3] = "Meow!"
    /\ out[4] = "Generic animal sound"
    /\ res = ResValue(PyNone)
    /\ \E a, b \in MadeBy("Animal") : made[a].args # made[b].args

\* C5: an object made by Cat(name) stores the same attributes as one made by
\* Animal(name'), and the same values when name = name'.
C5_CatStoresWhatAnimalStores ==
    \A a \in MadeBy("Cat"), b \in MadeBy("Animal") :
        /\ DOMAIN heap[a].dict = DOMAIN heap[b].dict
        /\ made[a].args = made[b].args => heap[a].dict = heap[b].dict

C5_Witness ==
    \E a \in MadeBy("Cat"), b \in MadeBy("Animal") : made[a].args = made[b].args

\* C6 as stated: the complete output of a run of the script is the line
\* "Woof!" followed by the line "Meow!".
C6_OutputIsWoofMeow ==
    (LiteralRun /\ status = "done") => out = <<"Woof!", "Meow!">>

\* C6, amended: a run of the script takes its statements in the order of the
\* source: it defines Dog, instantiates it, prints the instance's name,
\* calls bark, defines Animal, defines Cat, instantiates Cat and calls speak;
\* its complete output is the lines "Fido", "Woof!" and "Meow!".
C6_StepsAndOutput ==
    /\ [](LiteralRun /\ status = "done" => out = <<"Fido", "Woof!", "Meow!">>)
    /\ [][(LiteralRun /\ status = "running") =>
            CASE pc = 4  -> pc' = 12 /\ defined' = {"Dog"} /\ out' = out
              [] pc = 12 -> pc' = 13 /\ heap'[globals'.my_dog].cls = "Dog" /\ out' = out
              [] pc = 13 -> pc' = 14 /\ out' = Append(out, "Fido")
              [] pc = 14 -> pc' = 17 /\ out' = Append(out, "Woof!")
              [] pc = 17 -> pc' = 24 /\ defined' = {"Dog", "Animal"} /\ out' = out
              [] pc = 24 -> pc' = 31 /\ defined' = {"Dog", "Animal", "Cat"} /\ out' = out
              [] pc = 31 -> pc' = 32 /\ heap'[globals'.my_cat].cls = "Cat" /\ out' = out
              [] pc = 32 -> status' = "done" /\ out' = Append(out, "Meow!")
              [] OTHER   -> FALSE]_vars

C6_Witness == LiteralRun /\ status = "done" /\ Len(out) = 3

\* C7: in a run of the script as written no statement raises, and the run
\* ends normally.
C7_NoErrorAndEnds ==
    /\ [](LiteralRun => (status # "crashed" /\ (InScript => res.kind # "error")))
    /\ (LiteralRun ~> status \in {"done", "loaded"})

C7_Witness == LiteralRun /\ status = "done" /\ res = ResValue(PyNone)

\* The number of arguments each constructor takes.
Arity(c) == IF c = "Dog" THEN 2 ELSE 1

\* C8: a call of a constructor with the number of arguments its class takes
\* (two for Dog, one for Animal and for Cat) yields a new instance of the
\* class, for any argument values; with any other number it raises TypeError
\* and yields no object.  A run of the script fails, at the constructor
\* call, exactly when an argument list has another length, which the lists
\* written in the source have not.
C8_OnlyArityFails ==
    /\ \A c \in defined, args \in CallerArgs :
        LET r == New(heap, out, defined, c, args)
        IN  IF Len(args) = Arity(c)
            THEN /\ r.exc = ""
                 /\ r.ref = Len(heap) + 1
                 /\ DOMAIN r.heap = 1..(Len(heap) + 1)
                 /\ r.heap[r.ref].cls = c
            ELSE /\ r.exc = "TypeError"
                 /\ r.ref = 0
                 /\ r.heap = heap
    /\ status = "crashed" =>
        /\ res = ResError("TypeError", "")
        /\ \/ pc = 12 /\ Len(dogArgs) # 2 /\ heap = <<>> /\ globals.my_dog = 0
           \/ pc = 31 /\ Len(catArgs) # 1 /\ Len(heap) = 1 /\ globals.my_cat = 0
    /\ (Len(dogArgs) = 2 /\ Len(catArgs) = 1) => status # "crashed"
    /\ Len(DogLiteral) = Arity("Dog") /\ Len(CatLiteral) = Arity("Cat")
    /\ (LiteralRun /\ InScript) => res.exc # "TypeError"

C8_Witness ==
    /\ status = "loaded"
    /\ res = ResError("TypeError", "")
    /\ Len(heap) = 3

\* C9: no step changes an object once it is made: not a call of bark or of
\* speak, and not a statement of the script after the constructor call; so
\* every object stores the values its constructor was given.
C9_NeverMutated ==
    /\ [][\A r \in DOMAIN heap : r \in DOMAIN heap' /\ heap'[r] = heap[r]]_vars
    /\ [](\A r \in DOMAIN heap :
            IF made[r].cls = "Dog"
            THEN heap[r].dict["name"] = made[r].args[1]
                 /\ heap[r].dict["breed"] = made[r].args[2]
            ELSE heap[r].dict["_Animal__name"] = made[r].args[1])

C9_Witness ==
    /\ status = "loaded"
    /\ Len(out) = 4
    /\ out[4] = "Woof!"
    /\ MadeBy("Dog") # {globals.my_dog}
    /\ MadeBy("Animal") # {}

\* C10: Animal's constructor stores the name under _Animal__name, in a Cat
\* as in an Animal; reading __name at module scope or in a method of Cat
\* raises AttributeError, and reading _Animal__name gives the constructor's
\* argument whatever the scope.
C10_NameIsMangled ==
    \A r \in MadeBy("Animal") \cup MadeBy("Cat") :
        /\ DOMAIN heap[r].dict = {"_Animal__name"}
        /\ heap[r].dict["_Animal__name"] = made[r].args[1]
        /\ LoadAttr(heap, r, "__name", "module") = ResError("AttributeError", "__name")
        /\ LoadAttr(heap, r, "__name", "Cat") = ResError("AttributeError", "_Cat__name")
        /\ \A s \in Scopes : LoadAttr(heap, r, "_Animal__name", s) = ResValue(made[r].args[1])

C10_Witness ==
    /\ status = "loaded"
    /\ res = ResError("AttributeError", "_Cat__name")
    /\ MadeBy("Animal") # {}
    /\ MadeBy("Dog") = {globals.my_dog}

====
